---- MODULE Spec2Model ----
(***************************************************************************)
(* A model of the scan-and-grade pipeline of the quant scanner:            *)
(*   scanner.py        QuantScanner.run_scan and its pool workers          *)
(*   risk_manager.py   RiskManager.analyze_market_condition                *)
(*   data_collector.py DataCollector's TTL cache and read paths            *)
(* Floats are scaled to integers: ratios and weights are in percent        *)
(* (0.3 is 30, 2.0 is 200, 0.03 is 3).                                     *)
(***************************************************************************)
EXTENDS Integers, Sequences, FiniteSets, TLC

VARIABLES
    lock,            \* scanner -> "free" or the caller holding QuantScanner._lock
    progress,        \* scanner -> QuantScanner.progress
    market_condition,\* scanner -> QuantScanner.market_condition
    engine_params,   \* strategies.engine.params: one object for the whole process
    index_above,     \* upstream: is each benchmark index above its 5-day average
    pc,              \* caller -> where the caller is inside run_scan
    inst,            \* caller -> the scanner instance run_scan was called on
    scan_params,     \* caller -> the scan_params argument of the call
    allowed,         \* caller -> run_scan's local `allowed`
    ticker_list,     \* caller -> run_scan's local `ticker_list`
    processed_count, \* caller -> run_scan's local `processed_count`
    workers,         \* caller -> one record per submitted analyze_ticker task
    outcome,         \* caller -> how the caller's latest call ended
    now,             \* datetime.now(), in seconds
    cache,           \* DataCollector._cache: key -> (fetched-at, frame)
    last,            \* what the latest collector read returned
    call,            \* the function under study and the arguments it is given
    ret              \* what that function returned

scanVars == <<lock, progress, market_condition, engine_params, index_above,
              pc, inst, scan_params, allowed, ticker_list, processed_count,
              workers, outcome>>

collVars == <<now, cache, last>>

callVars == <<call, ret>>

vars == <<scanVars, collVars, callVars>>

----------------------------------------------------------------------------
(* Bounds of the model *)

NumCallers == 2
NumScanners == 2
MaxUniverse == 2

Callers == 1..NumCallers
Scanners == 1..NumScanners

----------------------------------------------------------------------------
(* Values a caller can pass: a number, a string where a number is expected, *)
(* or nothing.                                                              *)

Num(n) == <<"num", n>>
Str == <<"str", 0>>
None == <<"none", 0>>
IsNum(x) == x[1] = "num"
IsStr(x) == x[1] = "str"

StrategyOrder ==
    <<"pullback", "bottom_escape", "golden_cross", "breakout", "convergence">>
StrategyKeys == {StrategyOrder[i] : i \in DOMAIN StrategyOrder}

Knobs == {"p_lookback", "p_vol", "b_ma", "b_vol_ratio", "g_short", "g_long",
          "g_rsi", "br_lookback", "br_vol", "c_pct"}

KnobsOf(s) ==
    CASE s = "pullback"      -> {"p_lookback", "p_vol"}
      [] s = "bottom_escape" -> {"b_ma", "b_vol_ratio"}
      [] s = "golden_cross"  -> {"g_short", "g_long", "g_rsi"}
      [] s = "breakout"      -> {"br_lookback", "br_vol"}
      [] s = "convergence"   -> {"c_pct"}
      [] OTHER               -> {}

DefaultOf(k) ==
    CASE k = "p_lookback"  -> Num(5)
      [] k = "p_vol"       -> Num(30)
      [] k = "b_ma"        -> Num(20)
      [] k = "b_vol_ratio" -> Num(200)
      [] k = "g_short"     -> Num(5)
      [] k = "g_long"      -> Num(20)
      [] k = "g_rsi"       -> Num(50)
      [] k = "br_lookback" -> Num(60)
      [] k = "br_vol"      -> Num(200)
      [] k = "c_pct"       -> Num(3)

strategy_config == [k \in Knobs |-> DefaultOf(k)]

NoVars == [k \in {} |-> None]
NotSelected == [kind |-> "none", keys |-> {}]
Selected(S) == [kind |-> "list", keys |-> S]
NotIterable == [kind |-> "bad", keys |-> {}]

(* run_scan() as the agent loop and the command line call it *)
NoParams ==
    [min_market_cap |-> None, top_rank |-> None,
     strategies |-> NotSelected, vars |-> NoVars]

ParamChoices ==
    { NoParams,
      [min_market_cap |-> None, top_rank |-> Num(50),
       strategies |-> Selected({"pullback", "breakout"}),
       vars |-> [k \in {"p_lookback"} |-> Num(10)]],
      [min_market_cap |-> Num(1), top_rank |-> None,
       strategies |-> NotSelected,
       vars |-> [k \in {"p_lookback", "g_rsi"} |->
                    IF k = "p_lookback" THEN Num(3) ELSE Num(60)]],
      [min_market_cap |-> None, top_rank |-> None,
       strategies |-> Selected({"golden_cross", "momentum"}),
       vars |-> [k \in {"g_rsi"} |-> Str]],
      [min_market_cap |-> Str, top_rank |-> None,
       strategies |-> NotSelected, vars |-> NoVars],
      [min_market_cap |-> None, top_rank |-> None,
       strategies |-> NotIterable, vars |-> NoVars] }

(* upstream data: what each evaluator finds in a ticker's candles *)
feed ==
    [s \in StrategyKeys |->
        CASE s \in {"pullback", "bottom_escape"} -> "hit"
          [] s = "breakout" -> "raise"
          [] OTHER -> "miss"]

manual_tickers == <<"005930", "000660", "373220", "207940", "005380">>
Universe == <<"900001", "900002", "900003", "900004">>
max_workers == 5

----------------------------------------------------------------------------
(* risk_manager.py: the market regime from the two above/below flags *)

(* a classification that calls the market weak as soon as one index is below *)
MarketConditionBearOnEither(kospi, kosdaq) ==
    LET both_below == ~kospi \/ ~kosdaq
        both_above == kospi /\ kosdaq
    IN  [kospi_above_ma5 |-> kospi,
         kosdaq_above_ma5 |-> kosdaq,
         market_phase |-> IF both_below THEN "BEAR"
                          ELSE IF both_above THEN "BULL" ELSE "NEUTRAL",
         max_weight |-> IF both_below THEN 30
                        ELSE IF both_above THEN 100 ELSE 70,
         allowed_strategies |-> IF both_below THEN {"bottom_escape"}
                                ELSE StrategyKeys]

MarketCondition(kospi, kosdaq) ==
    LET both_below == ~kospi /\ ~kosdaq
        both_above == kospi /\ kosdaq
    IN  [kospi_above_ma5 |-> kospi,
         kosdaq_above_ma5 |-> kosdaq,
         market_phase |-> IF both_below THEN "BEAR"
                          ELSE IF both_above THEN "BULL" ELSE "NEUTRAL",
         max_weight |-> IF both_below THEN 30
                        ELSE IF both_above THEN 100 ELSE 70,
         allowed_strategies |-> IF both_below THEN {"bottom_escape"}
                                ELSE StrategyKeys]

(* QuantScanner.market_condition before the first classification (None) *)
NoCondition ==
    [kospi_above_ma5 |-> FALSE, kosdaq_above_ma5 |-> FALSE,
     market_phase |-> "NONE", max_weight |-> 0, allowed_strategies |-> {}]

analyze_market_condition ==
    MarketCondition(index_above["kospi"], index_above["kosdaq"])

----------------------------------------------------------------------------
(* data_collector.py: the TTL cache and the read paths of DataCollector *)

(* the clock readings the model steps through *)
Instants == {0, 599, 600, 86400, 87000}

CacheKeys == {"market_cap", "ohlcv", "index"}
Upstream == {"ok", "empty", "fail"}

TTL == 600
SecondsPerDay == 86400

NoEntry == [present |-> FALSE, ts |-> 0, frame |-> "none"]
Entry(ts, frame) == [present |-> TRUE, ts |-> ts, frame |-> frame]

NoRead == [path |-> "none", result |-> "none", cached |-> FALSE, age |-> 0,
           up |-> "none"]
Read(path, result, up) ==
    [path |-> path, result |-> result, cached |-> FALSE, age |-> 0, up |-> up]
Served(path, e, t) ==
    [path |-> path, result |-> e.frame, cached |-> TRUE, age |-> t - e.ts,
     up |-> "none"]

(* (datetime.now() - ts).seconds < 600: timedelta.seconds is the seconds *)
(* field of the normalised difference, without its days                 *)
Fresh(ts, t) == ((t - ts) % SecondsPerDay) < TTL

(* krx_post and _fetch_ohlcv_kis give an empty frame on an error, a timeout, *)
(* a bad status or an empty answer; the reader then takes simulated data     *)
Fetched(up) == IF up = "ok" THEN "upstream" ELSE "synthetic"

(* the KIS quote readers give an empty dict or frame in those cases *)
Quoted(up) == IF up = "ok" THEN "upstream" ELSE "empty"

(* lines 150-154 and 214-215: the cached universe unless force or stale *)
GetMarketCapData(force, up) ==
    LET e == cache["market_cap"]
    IN  /\ IF ~force /\ e.present /\ Fresh(e.ts, now)
           THEN /\ last' = Served("market_cap", e, now)
                /\ cache' = cache
           ELSE /\ last' = Read("market_cap", Fetched(up), up)
                /\ cache' = [cache EXCEPT !["market_cap"] = Entry(now, Fetched(up))]
        /\ UNCHANGED <<now, scanVars, callVars>>

(* lines 271-288: both the fetched and the simulated frame have the required *)
(* columns, so the frame is always cached                                    *)
GetOhlcv(up) ==
    LET e == cache["ohlcv"]
    IN  /\ IF e.present /\ Fresh(e.ts, now)
           THEN /\ last' = Served("ohlcv", e, now)
                /\ cache' = cache
           ELSE /\ last' = Read("ohlcv", Fetched(up), up)
                /\ cache' = [cache EXCEPT !["ohlcv"] = Entry(now, Fetched(up))]
        /\ UNCHANGED <<now, scanVars, callVars>>

(* lines 574-617 *)
GetMarketIndex(up) ==
    LET e == cache["index"]
    IN  /\ IF e.present /\ Fresh(e.ts, now)
           THEN /\ last' = Served("index", e, now)
                /\ cache' = cache
           ELSE /\ last' = Read("index", Fetched(up), up)
                /\ cache' = [cache EXCEPT !["index"] = Entry(now, Fetched(up))]
        /\ UNCHANGED <<now, scanVars, callVars>>

(* lines 354-376 *)
GetInvestorData(up) ==
    /\ last' = Read("investor", Quoted(up), up)
    /\ UNCHANGED <<now, cache, scanVars, callVars>>

(* lines 461-488 *)
GetCurrentPrice(up) ==
    /\ last' = Read("quote", Quoted(up), up)
    /\ UNCHANGED <<now, cache, scanVars, callVars>>

(* lines 490-514 *)
GetOrderbook(up) ==
    /\ last' = Read("orderbook", Quoted(up), up)
    /\ UNCHANGED <<now, cache, scanVars, callVars>>

(* lines 516-538 *)
GetProgramTrading(up) ==
    /\ last' = Read("program", Quoted(up), up)
    /\ UNCHANGED <<now, cache, scanVars, callVars>>

(* clear_cache, lines 125-128 *)
ClearCache ==
    /\ cache' = [k \in CacheKeys |-> NoEntry]
    /\ UNCHANGED <<now, last, scanVars, callVars>>

(* time passes between two reads *)
Pass(t) ==
    /\ t > now
    /\ now' = t
    /\ UNCHANGED <<cache, last, scanVars, callVars>>

----------------------------------------------------------------------------
(* scanner.py: helpers of run_scan *)

Progress(percent, message, count) ==
    [percent |-> percent, message |-> message, count |-> count]

VarsGet(v, k, d) == IF k \in DOMAIN v THEN v[k] ELSE d

(* lines 102-119: every knob is assigned, from vars or from the literal default *)
InstalledParams(v) == [k \in Knobs |-> VarsGet(v, k, DefaultOf(k))]

(* line 151: 20 + int((processed_count / max(total, 1)) * 75), computed in     *)
(* double precision: the quotient 11/15 times 75 is 54.99..., truncated to 54. *)
Max(a, b) == IF a >= b THEN a ELSE b
CurrPct(count, total) ==
    LET t == Max(total, 1)
        exact == (count * 75) \div t
    IN  20 + (IF 15 * count = 11 * t THEN exact - 1 ELSE exact)

(* lines 141-146: the strategy loop of analyze_ticker over strategy_map, for one *)
(* ticker.  An evaluator whose knobs hold a non-number raises on its comparison; *)
(* otherwise the data decides.  Raises are swallowed by the bare except.         *)
Evaluate(s, ep, fd) ==
    IF \E k \in KnobsOf(s) : ~IsNum(ep[k]) THEN "raise" ELSE fd[s]

Signal(t, s, ep) ==
    [ticker |-> t, strategy |-> s, read |-> [k \in KnobsOf(s) |-> ep[k]]]

StrategyLoop(t, allow, ep, fd) ==
    LET tried == {s \in StrategyKeys : s \in allow}
        Hit(s) == s \in tried /\ Evaluate(s, ep, fd) = "hit"
        hits == SelectSeq(StrategyOrder, Hit)
    IN  [sigs |-> [i \in DOMAIN hits |-> Signal(t, hits[i], ep)],
         tried |-> tried,
         errors |-> {s \in tried : Evaluate(s, ep, fd) = "raise"}]

NoTask == [ticker |-> "", st |-> "none", sigs |-> <<>>, tried |-> {}, errors |-> {}]
Task(t, st) == [NoTask EXCEPT !.ticker = t, !.st = st]

Busy(ws) == Cardinality({k \in DOMAIN ws : ws[k].st \in {"run", "lock"}})

(* ThreadPoolExecutor: tasks start in submission order while a thread is free *)
StartQueued(ws) ==
    LET queued == {k \in DOMAIN ws : ws[k].st = "queued"}
        first == CHOOSE k \in queued : \A j \in queued : k <= j
    IN  IF queued # {} /\ Busy(ws) < max_workers
        THEN [ws EXCEPT ![first].st = "run"]
        ELSE ws

InBody(c) == pc[c] \in {"init", "market", "filter", "install", "pool"}

(* no function is under study in the scanner and collector specifications *)
NoCall == [fn |-> "none"]
NoReturn == [fn |-> "none"]

----------------------------------------------------------------------------
(* State after construction: QuantScanner.__init__, StrategyEngine.__init__ *)

Constructed ==
    /\ lock = [i \in Scanners |-> 0]
    /\ progress = [i \in Scanners |-> Progress(0, "waiting", 0)]
    /\ market_condition = [i \in Scanners |-> NoCondition]
    /\ engine_params = strategy_config
    /\ index_above \in [{"kospi", "kosdaq"} -> BOOLEAN]
    /\ pc = [c \in Callers |-> "idle"]
    /\ inst = [c \in Callers |-> 1]
    /\ scan_params = [c \in Callers |-> NoParams]
    /\ allowed = [c \in Callers |-> NotSelected]
    /\ ticker_list = [c \in Callers |-> <<>>]
    /\ processed_count = [c \in Callers |-> 0]
    /\ workers = [c \in Callers |-> <<>>]
    /\ outcome = [c \in Callers |-> "none"]
    /\ now = 0
    /\ cache = [k \in CacheKeys |-> NoEntry]
    /\ last = NoRead

Init ==
    /\ Constructed
    /\ call = NoCall
    /\ ret = NoReturn

(* the same objects with the indices fixed, for the functions that are *)
(* studied on their own                                                 *)
Quiet ==
    /\ Constructed
    /\ index_above = [x \in {"kospi", "kosdaq"} |-> TRUE]

----------------------------------------------------------------------------
(* QuantScanner.run_scan, one action per step of the calling thread *)

(* a thread calls scanner.run_scan(scan_params) on some instance *)
Call(c, i, p) ==
    /\ pc[c] = "idle"
    /\ pc' = [pc EXCEPT ![c] = "enter"]
    /\ inst' = [inst EXCEPT ![c] = i]
    /\ scan_params' = [scan_params EXCEPT ![c] = p]
    /\ outcome' = [outcome EXCEPT ![c] = "none"]
    /\ UNCHANGED <<lock, progress, market_condition, engine_params, index_above, allowed, ticker_list, processed_count, workers,
                   collVars, callVars>>

(* lines 58-67: with self._lock, then the first progress record *)
Acquire(c) ==
    /\ pc[c] = "enter"
    /\ lock[inst[c]] = 0
    /\ lock' = [lock EXCEPT ![inst[c]] = c]
    /\ progress' = [progress EXCEPT ![inst[c]] = Progress(0, "init", 0)]
    /\ pc' = [pc EXCEPT ![c] = "init"]
    /\ UNCHANGED <<market_condition, engine_params, index_above, inst,
                   scan_params, allowed, ticker_list, processed_count, workers,
                   outcome,
                   collVars, callVars>>

(* line 72 *)
StartMarket(c) ==
    /\ pc[c] = "init"
    /\ progress' = [progress EXCEPT ![inst[c]] = Progress(5, "market", 0)]
    /\ pc' = [pc EXCEPT ![c] = "market"]
    /\ UNCHANGED <<lock, market_condition, engine_params, index_above, inst,
                   scan_params, allowed, ticker_list, processed_count, workers,
                   outcome,
                   collVars, callVars>>

(* Raised as it would be if the lock were taken with acquire() and the release *)
(* skipped on the exceptional path                                            *)
RaisedKeepsGuard(c) ==
    /\ lock' = lock
    /\ pc' = [pc EXCEPT ![c] = "idle"]
    /\ outcome' = [outcome EXCEPT ![c] = "raised"]
    /\ allowed' = [allowed EXCEPT ![c] = NotSelected]
    /\ ticker_list' = [ticker_list EXCEPT ![c] = <<>>]
    /\ processed_count' = [processed_count EXCEPT ![c] = 0]
    /\ workers' = [workers EXCEPT ![c] = <<>>]
    /\ scan_params' = [scan_params EXCEPT ![c] = NoParams]
    /\ UNCHANGED inst

(* an exception leaves the with block: the lock is released, the locals die *)
Raised(c) ==
    /\ lock' = [lock EXCEPT ![inst[c]] = 0]
    /\ pc' = [pc EXCEPT ![c] = "idle"]
    /\ outcome' = [outcome EXCEPT ![c] = "raised"]
    /\ allowed' = [allowed EXCEPT ![c] = NotSelected]
    /\ ticker_list' = [ticker_list EXCEPT ![c] = <<>>]
    /\ processed_count' = [processed_count EXCEPT ![c] = 0]
    /\ workers' = [workers EXCEPT ![c] = <<>>]
    /\ scan_params' = [scan_params EXCEPT ![c] = NoParams]
    /\ UNCHANGED inst

(* Classify as it would be if the step-2 record restarted the percent *)
ClassifyRestartsPercent(c) ==
    /\ pc[c] = "market"
    /\ market_condition' =
           [market_condition EXCEPT ![inst[c]] = analyze_market_condition]
    /\ progress' = [progress EXCEPT ![inst[c]] = Progress(0, "filter", 0)]
    /\ pc' = [pc EXCEPT ![c] = "filter"]
    /\ UNCHANGED <<lock, engine_params, index_above, inst, scan_params,
                   allowed, ticker_list, processed_count, workers, outcome,
                   collVars, callVars>>

(* lines 75-84: classify the market, then the step-2 progress record *)
Classify(c) ==
    /\ pc[c] = "market"
    /\ market_condition' =
           [market_condition EXCEPT ![inst[c]] = analyze_market_condition]
    /\ progress' = [progress EXCEPT ![inst[c]] = Progress(15, "filter", 0)]
    /\ pc' = [pc EXCEPT ![c] = "filter"]
    /\ UNCHANGED <<lock, engine_params, index_above, inst, scan_params,
                   allowed, ticker_list, processed_count, workers, outcome,
                   collVars, callVars>>

(* line 75 raising: an index frame without its close column (risk_manager.py:75) *)
ClassifyRaises(c) ==
    /\ pc[c] = "market"
    /\ Raised(c)
    /\ UNCHANGED <<progress, market_condition, engine_params, index_above,
                   collVars, callVars>>

(* filter_stocks compares min_market_cap and top_rank with 0 *)
FilterTypeError(p) == IsStr(p.min_market_cap) \/ IsStr(p.top_rank)

(* lines 85-97: the universe, or the manual list when filtering yields nothing *)
Filter(c, n) ==
    /\ pc[c] = "filter"
    /\ ~FilterTypeError(scan_params[c])
    /\ ticker_list' = [ticker_list EXCEPT ![c] =
                          IF n = 0 THEN manual_tickers ELSE SubSeq(Universe, 1, n)]
    /\ pc' = [pc EXCEPT ![c] = "install"]
    /\ UNCHANGED <<lock, progress, market_condition, engine_params, index_above, inst, scan_params, allowed, processed_count, workers,
                   outcome,
                   collVars, callVars>>

(* line 88 raising: a non-numeric floor or ceiling (data_collector.py:247-250), *)
(* or a universe frame without its name column (data_collector.py:210)         *)
FilterRaises(c) ==
    /\ pc[c] = "filter"
    /\ Raised(c)
    /\ UNCHANGED <<progress, market_condition, engine_params, index_above,
                   collVars, callVars>>

(* lines 102-134: install the overrides, fix `allowed`; lines 161-163: submit *)
(* every ticker to the pool                                                  *)
Install(c) ==
    LET p == scan_params[c]
        total == Len(ticker_list[c])
    IN  /\ pc[c] = "install"
        /\ engine_params' = IF DOMAIN p.vars # {} THEN InstalledParams(p.vars)
                            ELSE engine_params
        /\ allowed' = [allowed EXCEPT ![c] =
                          IF p.strategies.kind = "none"
                          THEN Selected(market_condition[inst[c]].allowed_strategies)
                          ELSE p.strategies]
        /\ processed_count' = [processed_count EXCEPT ![c] = 0]
        /\ workers' = [workers EXCEPT ![c] =
                          [k \in 1..total |->
                              Task(ticker_list[c][k],
                                   IF k <= max_workers THEN "run" ELSE "queued")]]
        /\ pc' = [pc EXCEPT ![c] = "pool"]
        /\ UNCHANGED <<lock, progress, market_condition, index_above, inst,
                       scan_params, ticker_list, outcome,
                   collVars, callVars>>

----------------------------------------------------------------------------
(* analyze_ticker, the task of one pool worker *)

(* lines 139-146: the strategy loop.  `strategy_key not in allowed` on a value *)
(* that is no container raises outside the try, and the task ends with it.    *)
(* The loop of one ticker is one step, taken at the moment it reads the       *)
(* shared parameters.  Tasks differ by their ticker only, so of the orders in *)
(* which running tasks can end their loops the model keeps one: submission    *)
(* order.  Steps of other calls still fall between any two of them.           *)
AnalyzeTicker(c, k) ==
    /\ pc[c] = "pool"
    /\ k \in DOMAIN workers[c]
    /\ workers[c][k].st = "run"
    /\ \A j \in 1..(k - 1) : workers[c][j].st # "run"
    /\ workers' = [workers EXCEPT ![c][k] =
           IF allowed[c].kind = "bad"
           THEN [@ EXCEPT !.st = "raised"]
           ELSE LET r == StrategyLoop(@.ticker, allowed[c].keys, engine_params, feed)
                IN  [@ EXCEPT !.st = "lock", !.sigs = r.sigs,
                              !.tried = r.tried, !.errors = r.errors]]
    /\ UNCHANGED <<lock, progress, market_condition, engine_params, index_above, pc, inst, scan_params, allowed, ticker_list,
                   processed_count, outcome,
                   collVars, callVars>>

(* lines 149-158: with self._lock, count the ticker and publish the progress; *)
(* the task returns and its thread takes the next queued ticker               *)
UpdateProgress(c, k) ==
    /\ pc[c] = "pool"
    /\ k \in DOMAIN workers[c]
    /\ workers[c][k].st = "lock"
    /\ lock[inst[c]] = 0
    /\ processed_count' = [processed_count EXCEPT ![c] = @ + 1]
    /\ progress' = [progress EXCEPT ![inst[c]] =
           Progress(CurrPct(processed_count[c] + 1, Len(ticker_list[c])),
                    "ticker", processed_count[c] + 1)]
    /\ workers' = [workers EXCEPT ![c] =
                      StartQueued([@ EXCEPT ![k].st = "done"])]
    /\ UNCHANGED <<lock, market_condition, engine_params, index_above, pc,
                   inst, scan_params, allowed, ticker_list, outcome,
                   collVars, callVars>>

(* lines 162-165 when a task raised: executor.map re-raises the first failed  *)
(* result in submission order, cancels what is still queued, and the with     *)
(* block waits for the running tasks before the exception leaves run_scan     *)
PoolRaises(c) ==
    /\ pc[c] = "pool"
    /\ \E j \in DOMAIN workers[c] :
          /\ workers[c][j].st = "raised"
          /\ \A i \in 1..(j - 1) : workers[c][i].st = "done"
    /\ \A k \in DOMAIN workers[c] : workers[c][k].st \notin {"run", "lock"}
    /\ Raised(c)
    /\ UNCHANGED <<progress, market_condition, engine_params, index_above,
                   collVars, callVars>>

(* lines 164-165: all_signals in ticker order *)
RECURSIVE Collected(_, _)
Collected(ws, n) ==
    IF n = 0 THEN <<>> ELSE Collected(ws, n - 1) \o ws[n].sigs

AllDone(c) == \A k \in DOMAIN workers[c] : workers[c][k].st = "done"

(* lines 167-188 with no signal: summary, save, the final progress record, return *)
Finish(c) ==
    /\ pc[c] = "pool"
    /\ AllDone(c)
    /\ Collected(workers[c], Len(workers[c])) = <<>>
    /\ progress' = [progress EXCEPT ![inst[c]] = Progress(100, "done", 0)]
    /\ lock' = [lock EXCEPT ![inst[c]] = 0]
    /\ pc' = [pc EXCEPT ![c] = "idle"]
    /\ outcome' = [outcome EXCEPT ![c] = "returned"]
    /\ allowed' = [allowed EXCEPT ![c] = NotSelected]
    /\ ticker_list' = [ticker_list EXCEPT ![c] = <<>>]
    /\ processed_count' = [processed_count EXCEPT ![c] = 0]
    /\ workers' = [workers EXCEPT ![c] = <<>>]
    /\ scan_params' = [scan_params EXCEPT ![c] = NoParams]
    /\ UNCHANGED <<market_condition, engine_params, index_above, inst,
                   collVars, callVars>>

(* lines 170-172 with a signal: signal_to_dict reads signal.market_cap, which *)
(* StrategySignal does not have (report_generator.py:148)                     *)
ConvertRaises(c) ==
    /\ pc[c] = "pool"
    /\ AllDone(c)
    /\ Collected(workers[c], Len(workers[c])) # <<>>
    /\ Raised(c)
    /\ UNCHANGED <<progress, market_condition, engine_params, index_above,
                   collVars, callVars>>

----------------------------------------------------------------------------
(* The steps a scan and its workers can take.  UpdateProgress, Finish and      *)
(* ConvertRaises are steps of the code; GuardHeldInPool and NoTaskCounted show *)
(* that no reachable state enables them, so Next leaves them out.              *)

ScanStep(c) ==
    \/ Acquire(c)
    \/ StartMarket(c)
    \/ Classify(c)
    \/ ClassifyRaises(c)
    \/ \E n \in 0..MaxUniverse : Filter(c, n)
    \/ FilterRaises(c)
    \/ Install(c)
    \/ \E k \in DOMAIN workers[c] : AnalyzeTicker(c, k)
    \/ PoolRaises(c)

BlockedStep(c) ==
    \/ \E k \in DOMAIN workers[c] : UpdateProgress(c, k)
    \/ Finish(c)
    \/ ConvertRaises(c)

Next ==
    \/ \E c \in Callers, i \in Scanners, p \in ParamChoices : Call(c, i, p)
    \/ \E c \in Callers : Acquire(c)
    \/ \E c \in Callers : StartMarket(c)
    \/ \E c \in Callers : Classify(c)
    \/ \E c \in Callers : ClassifyRaises(c)
    \/ \E c \in Callers, n \in 0..MaxUniverse : Filter(c, n)
    \/ \E c \in Callers : FilterRaises(c)
    \/ \E c \in Callers : Install(c)
    \/ \E c \in Callers : \E k \in DOMAIN workers[c] : AnalyzeTicker(c, k)
    \/ \E c \in Callers : PoolRaises(c)

Spec == Init /\ [][Next]_vars

(* the collector on its own: reads at the model's instants *)
NextCollector ==
    \/ \E force \in BOOLEAN, up \in Upstream : GetMarketCapData(force, up)
    \/ \E up \in Upstream : GetOhlcv(up)
    \/ \E up \in Upstream : GetMarketIndex(up)
    \/ \E up \in Upstream : GetInvestorData(up)
    \/ \E up \in Upstream : GetCurrentPrice(up)
    \/ \E up \in Upstream : GetOrderbook(up)
    \/ \E up \in Upstream : GetProgramTrading(up)
    \/ ClearCache
    \/ \E t \in Instants : Pass(t)

InitCollector == Init /\ index_above = [x \in {"kospi", "kosdaq"} |-> TRUE]

SpecCollector == InitCollector /\ [][NextCollector]_vars

(* the scanning thread holds its scanner's lock for as long as its pool lives *)
GuardHeldInPool == \A c \in Callers : pc[c] = "pool" => lock[inst[c]] = c

(* no task ever gets past the lock of lines 149-158 *)
NoTaskCounted ==
    \A c \in Callers :
        /\ processed_count[c] = 0
        /\ \A k \in DOMAIN workers[c] : workers[c][k].st # "done"
        /\ ~ENABLED BlockedStep(c)

----------------------------------------------------------------------------
(* server.py: analyze_intersections, the three-stage grader *)

MaxSignals == 3
MaxPasses == 2

Tickers == {"005930", "000660"}

NoFilterResults ==
    [pattern_overlap |-> FALSE, pattern_count |-> 0, supply_sync |-> FALSE,
     supply_buy_count |-> 0, market_ok |-> FALSE, market_phase |-> "none"]

(* a record of ReportGenerator.signal_to_dict, before any grading *)
RawSignal(t, st, conf, verdict) ==
    [ticker |-> t, strategy |-> st, confidence |-> conf, verdict |-> verdict,
     reasons |-> <<>>, grade |-> "none", grade_label |-> "none",
     confidence_bonus |-> -1, original_confidence |-> -1,
     multi_strategy_count |-> 0, supply_acceleration |-> "none",
     filter_results |-> NoFilterResults]

SignalChoices ==
    { RawSignal("005930", "pullback", 80, "approved"),
      RawSignal("005930", "breakout", 70, "watch"),
      RawSignal("005930", "golden_cross", 60, "approved"),
      RawSignal("005930", "pullback", 60, "watch"),
      RawSignal("000660", "pullback", 80, "approved"),
      RawSignal("000660", "breakout", 60, "watch") }

(* net buys of the day and the day's volume, as the KIS readers return them *)
Flow(f, i, pg, vol) ==
    [foreign |-> f, institution |-> i, program |-> pg, volume |-> vol]

FlowChoices == {Flow(500, 300, -100, 1000), Flow(10, -5, 0, 100000), Flow(10, 10, 10, 0)}

(* the market_condition argument: passed by the caller, or absent and then *)
(* analysed anew, which may raise; the flags are the state of the indices  *)
Market(arg, kospi, kosdaq, raises) ==
    [arg |-> arg, kospi |-> kospi, kosdaq |-> kosdaq, raises |-> raises]

MarketChoices ==
    {Market("passed", k, q, FALSE) : k, q \in BOOLEAN}
        \cup {Market("absent", b, b, r) : b, r \in BOOLEAN}

GradeCalls ==
    [fn : {"analyze_intersections"},
     signals : UNION {[1..n -> SignalChoices] : n \in 1..MaxSignals},
     flows : [Tickers -> FlowChoices], market : MarketChoices]

(* data_collector.py lines 387-456: buy_count and the acceleration label; a *)
(* zero volume raises in the division, after the count, and leaves the label *)
(* empty                                                                     *)
get_supply_demand(fl) ==
    LET Pos(x) == IF x > 0 THEN 1 ELSE 0
        Abs(x) == IF x < 0 THEN -x ELSE x
        Fast(x) == Abs(x) * 20 > 2 * fl.volume
    IN  [buy_count |-> Pos(fl.foreign) + Pos(fl.institution) + Pos(fl.program),
         label |-> IF fl.volume = 0 THEN ""
                   ELSE IF Fast(fl.foreign) \/ Fast(fl.institution) \/ Fast(fl.program)
                        THEN "surge" ELSE "calm"]

(* lines 61-66: the condition the grader works with; NoCondition stands for None *)
GraderCondition(m) ==
    IF m.arg = "absent" /\ m.raises THEN NoCondition
    ELSE MarketCondition(m.kospi, m.kosdaq)

(* the second filter passing with a single buyer *)
GroupFiltersOneBuyer(group, fl, mc) ==
    LET pattern_count == Cardinality({group[i].strategy : i \in DOMAIN group})
        filter1 == pattern_count >= 2
        sd == IF filter1 THEN get_supply_demand(fl)
              ELSE [buy_count |-> 0, label |-> "analyzing"]
        filter2 == filter1 /\ sd.buy_count >= 1
        known == mc.market_phase # "NONE"
        filter3 == filter1 /\ filter2 /\
                   (IF known THEN mc.kospi_above_ma5 \/ mc.kosdaq_above_ma5 ELSE TRUE)
    IN  [pattern_count |-> pattern_count, sd |-> sd, filter1 |-> filter1,
         filter2 |-> filter2, filter3 |-> filter3,
         market_phase |-> IF filter1 /\ filter2 /\ known THEN mc.market_phase
                          ELSE "UNKNOWN"]

(* the supply check skipped for a group that carries a grade already *)
GroupFiltersSkipsGraded(group, fl, mc) ==
    LET pattern_count == Cardinality({group[i].strategy : i \in DOMAIN group})
        filter1 == pattern_count >= 2
        sd == IF filter1 THEN get_supply_demand(fl)
              ELSE [buy_count |-> 0, label |-> "analyzing"]
        filter2 == filter1 /\ (sd.buy_count >= 2 \/ group[1].grade # "none")
        known == mc.market_phase # "NONE"
        filter3 == filter1 /\ filter2 /\
                   (IF known THEN mc.kospi_above_ma5 \/ mc.kosdaq_above_ma5 ELSE TRUE)
    IN  [pattern_count |-> pattern_count, sd |-> sd, filter1 |-> filter1,
         filter2 |-> filter2, filter3 |-> filter3,
         market_phase |-> IF filter1 /\ filter2 /\ known THEN mc.market_phase
                          ELSE "UNKNOWN"]

(* lines 75-112: the three filters of one ticker group *)
GroupFilters(group, fl, mc) ==
    LET pattern_count == Cardinality({group[i].strategy : i \in DOMAIN group})
        filter1 == pattern_count >= 2
        sd == IF filter1 THEN get_supply_demand(fl)
              ELSE [buy_count |-> 0, label |-> "analyzing"]
        filter2 == filter1 /\ sd.buy_count >= 2
        known == mc.market_phase # "NONE"
        filter3 == filter1 /\ filter2 /\
                   (IF known THEN mc.kospi_above_ma5 \/ mc.kosdaq_above_ma5 ELSE TRUE)
    IN  [pattern_count |-> pattern_count, sd |-> sd, filter1 |-> filter1,
         filter2 |-> filter2, filter3 |-> filter3,
         market_phase |-> IF filter1 /\ filter2 /\ known THEN mc.market_phase
                          ELSE "UNKNOWN"]

(* lines 119-161: what the grader writes into one signal of the group *)
GradeSignal(sig, f) ==
    LET all_pass == f.filter1 /\ f.filter2 /\ f.filter3
        grade == IF all_pass /\ f.pattern_count >= 3 THEN "S"
                 ELSE IF all_pass /\ f.pattern_count >= 2 THEN "A"
                 ELSE IF f.filter1 /\ ~f.filter2 THEN "B+"
                 ELSE IF f.filter1 /\ f.filter2 /\ ~f.filter3 THEN "B+"
                 ELSE "B"
        label == IF all_pass /\ f.pattern_count >= 3 THEN "S"
                 ELSE IF all_pass /\ f.pattern_count >= 2 THEN "A"
                 ELSE IF f.filter1 /\ ~f.filter2 THEN "supply short"
                 ELSE IF f.filter1 /\ f.filter2 /\ ~f.filter3 THEN "market short"
                 ELSE "single"
    IN  [sig EXCEPT
            !.multi_strategy_count = f.pattern_count,
            !.supply_acceleration = f.sd.label,
            !.reasons = IF f.sd.label # "" /\ f.sd.label # "calm"
                        THEN <<f.sd.label>> \o @ ELSE @,
            !.filter_results =
                [pattern_overlap |-> f.filter1, pattern_count |-> f.pattern_count,
                 supply_sync |-> f.filter2, supply_buy_count |-> f.sd.buy_count,
                 market_ok |-> f.filter3, market_phase |-> f.market_phase],
            !.grade = grade,
            !.grade_label = label,
            !.verdict = IF grade \in {"S", "A"} THEN "approved" ELSE @,
            !.confidence_bonus = 0,
            !.original_confidence = sig.confidence]

(* lines 69-71: the tickers in the order of their first signal *)
RECURSIVE TickerOrder(_)
TickerOrder(sigs) ==
    IF sigs = <<>> THEN <<>>
    ELSE LET t == Head(sigs).ticker
             NotT(x) == x.ticker # t
         IN  <<t>> \o TickerOrder(SelectSeq(Tail(sigs), NotT))

(* lines 75-162: the groups in that order, each signal graded *)
RECURSIVE Enriched(_, _, _, _)
Enriched(order, sigs, flows, mc) ==
    IF order = <<>> THEN <<>>
    ELSE LET t == Head(order)
             IsT(x) == x.ticker = t
             group == SelectSeq(sigs, IsT)
             f == GroupFilters(group, flows[t], mc)
         IN  [i \in DOMAIN group |-> GradeSignal(group[i], f)]
                 \o Enriched(Tail(order), sigs, flows, mc)

(* lines 164-168: the sort key, grade rank first, then confidence descending *)
GradeOrder(g) ==
    CASE g = "S" -> 0 [] g = "A" -> 1 [] g = "B+" -> 2 [] OTHER -> 3

SortKey(sig) == GradeOrder(sig.grade) * 1000 - sig.confidence

(* list.sort is stable: equal keys keep their order *)
RECURSIVE SortedByKey(_)
SortedByKey(sigs) ==
    IF sigs = <<>> THEN <<>>
    ELSE LET n == Len(sigs)
             x == sigs[n]
             front == SortedByKey(SubSeq(sigs, 1, n - 1))
             NotAfter(y) == SortKey(y) <= SortKey(x)
             After(y) == SortKey(y) > SortKey(x)
         IN  SelectSeq(front, NotAfter) \o <<x>> \o SelectSeq(front, After)

(* a grader that rewards overlapping strategies with confidence *)
analyze_with_bonus(sigs, flows, m) ==
    LET out == SortedByKey(Enriched(TickerOrder(sigs), sigs, flows, GraderCondition(m)))
    IN  [i \in DOMAIN out |->
            [out[i] EXCEPT !.confidence_bonus = 5 * (out[i].multi_strategy_count - 1),
                           !.confidence = @ + 5 * (out[i].multi_strategy_count - 1)]]

analyze_intersections(sigs, flows, m) ==
    SortedByKey(Enriched(TickerOrder(sigs), sigs, flows, GraderCondition(m)))

(* server.py lines 241 and 308: a scan's signals are graded *)
AnalyzeIntersections ==
    /\ call.fn = "analyze_intersections"
    /\ ret = NoReturn
    /\ ret' = [fn |-> "analyze_intersections", passes |-> 1, previous |-> <<>>,
               signals |-> analyze_intersections(call.signals, call.flows, call.market)]
    /\ UNCHANGED <<call, scanVars, collVars>>

(* server.py line 282: stored, already graded signals are graded again *)
Regrade ==
    /\ ret.fn = "analyze_intersections"
    /\ ret.passes < MaxPasses
    /\ ret' = [fn |-> "analyze_intersections", passes |-> ret.passes + 1,
               previous |-> ret.signals,
               signals |-> analyze_intersections(ret.signals, call.flows, call.market)]
    /\ UNCHANGED <<call, scanVars, collVars>>

InitGrade ==
    /\ Quiet
    /\ call \in GradeCalls
    /\ ret = NoReturn

SpecGrade == InitGrade /\ [][AnalyzeIntersections \/ Regrade]_vars


----------------------------------------------------------------------------
(* risk_manager.py: analyze_market_condition on the index frames it reads *)

(* the closes of an index frame, oldest first; <<>> is the empty frame *)
IndexCloses ==
    { <<>>,
      <<10, 10, 12>>,
      <<10, 10, 10, 10, 10>>,
      <<10, 10, 10, 10, 15>>,
      <<10, 10, 10, 10, 5>>,
      <<30, 30, 10, 10, 10, 10, 11>>,
      <<1, 1, 10, 10, 10, 10, 9>>,
      <<8, 9, 10, 11, 12, 11>> }

market_ma_period == 5

RECURSIVE SumSeq(_)
SumSeq(q) == IF q = <<>> THEN 0 ELSE Head(q) + SumSeq(Tail(q))

(* lines 74-79: the frame is not empty, has five rows, and its last close is *)
(* above the mean of the last five                                           *)
AboveMA5(closes) ==
    LET n == Len(closes)
    IN  /\ n >= market_ma_period
        /\ market_ma_period * closes[n]
               > SumSeq(SubSeq(closes, n - market_ma_period + 1, n))

MarketCalls ==
    [fn : {"analyze_market_condition"}, kospi : IndexCloses, kosdaq : IndexCloses]

AnalyzeMarketCondition ==
    /\ call.fn = "analyze_market_condition"
    /\ ret = NoReturn
    /\ ret' = [fn |-> "analyze_market_condition",
               condition |-> MarketCondition(AboveMA5(call.kospi), AboveMA5(call.kosdaq))]
    /\ UNCHANGED <<call, scanVars, collVars>>

InitMarket ==
    /\ Quiet
    /\ call \in MarketCalls
    /\ ret = NoReturn

SpecMarket == InitMarket /\ [][AnalyzeMarketCondition]_vars

----------------------------------------------------------------------------
(* risk_manager.py: check_stop_loss on the daily frame it reads *)

(* a daily frame of n rows: n - 1 closes at base, then the last close; *)
(* get_ohlcv never returns an empty one                                *)
Frame(base, n, close) == [i \in 1..n |-> IF i = n THEN close ELSE base]

StopLossCalls ==
    [fn : {"check_stop_loss"}, entry_price : {10000},
     stop_loss_price : {0, 9400, 9700},
     closes : {Frame(b, n, c) : b \in {9500, 9800, 10000}, n \in {1, 19, 20, 30},
                                c \in {9600, 9700, 9750, 9800}}]

ma_long == 20

NoReport == [triggered |-> FALSE, action |-> "", current_price |-> 0, has_ma20 |-> FALSE]

(* the two tests of the report in the other order: the average first *)
StopLossReportAverageFirst(closes, stop) ==
    LET n == Len(closes)
        current == closes[n]
        has_ma20 == n >= ma_long /\ SumSeq(SubSeq(closes, n - ma_long + 1, n)) # 0
        below == has_ma20 /\ ma_long * current < SumSeq(SubSeq(closes, n - ma_long + 1, n))
    IN  IF below
        THEN [triggered |-> TRUE, action |-> "sell at close",
              current_price |-> current, has_ma20 |-> has_ma20]
        ELSE IF current <= stop
        THEN [triggered |-> TRUE, action |-> "sell now",
              current_price |-> current, has_ma20 |-> has_ma20]
        ELSE [triggered |-> FALSE, action |-> "hold",
              current_price |-> current, has_ma20 |-> has_ma20]

(* lines 153-178: MA20 exists for a frame of twenty rows (add_all_ma), and *)
(* a zero average counts as none (if ma20)                                 *)
StopLossReport(closes, stop) ==
    LET n == Len(closes)
        current == closes[n]
        has_ma20 == n >= ma_long /\ SumSeq(SubSeq(closes, n - ma_long + 1, n)) # 0
        below == has_ma20 /\ ma_long * current < SumSeq(SubSeq(closes, n - ma_long + 1, n))
    IN  IF current <= stop
        THEN [triggered |-> TRUE, action |-> "sell now",
              current_price |-> current, has_ma20 |-> has_ma20]
        ELSE IF below
        THEN [triggered |-> TRUE, action |-> "sell at close",
              current_price |-> current, has_ma20 |-> has_ma20]
        ELSE [triggered |-> FALSE, action |-> "hold",
              current_price |-> current, has_ma20 |-> has_ma20]

(* lines 149-151: an empty frame returns the report as constructed *)
check_stop_loss(closes, stop) ==
    IF closes = <<>> THEN NoReport ELSE StopLossReport(closes, stop)

CheckStopLoss ==
    /\ call.fn = "check_stop_loss"
    /\ ret = NoReturn
    /\ ret' = [fn |-> "check_stop_loss",
               report |-> check_stop_loss(call.closes, call.stop_loss_price)]
    /\ UNCHANGED <<call, scanVars, collVars>>

InitStopLoss ==
    /\ Quiet
    /\ call \in StopLossCalls
    /\ ret = NoReturn

SpecStopLoss == InitStopLoss /\ [][CheckStopLoss]_vars

----------------------------------------------------------------------------
(* data_collector.py: filter_stocks on the universe frame *)

MaxRank == 3

(* a row of the universe frame: code, name, market cap and turnover; the *)
(* turnovers differ, so the sort has no ties                             *)
Row(code, name, cap, value) ==
    [code |-> code, name |-> name, market_cap |-> cap, value |-> value]

Listed ==
    { Row("A", "stock", 500, 90), Row("K", "KODEX fund", 500, 80),
      Row("B", "stock", 300, 70), Row("C", "stock", 50, 60),
      Row("P", "spac", 200, 50), Row("D", "stock", 200, 40) }

FilterCalls ==
    [fn : {"filter_stocks"}, universe : (SUBSET Listed) \ {{}},
     min_market_cap : {0, 100}, top_rank : 1..MaxRank]

(* line 256-257: the name contains one of the eight keywords *)
MatchesKeyword(row) == row.name = "KODEX fund"

(* lines 250-252 *)
RECURSIVE ByValueDescending(_)
ByValueDescending(rows) ==
    IF rows = {} THEN <<>>
    ELSE LET top == CHOOSE r \in rows : \A o \in rows : o.value <= r.value
         IN  <<top>> \o ByValueDescending(rows \ {top})

HeadOf(q, n) == SubSeq(q, 1, IF n < Len(q) THEN n ELSE Len(q))

(* lines 244-258: the cap floor, the sort and head(t_rank), then the names *)
filter_stocks(rows, m_cap, t_rank) ==
    LET floor == IF m_cap > 0 THEN {r \in rows : r.market_cap >= m_cap} ELSE rows
        ranked == IF t_rank > 0 THEN HeadOf(ByValueDescending(floor), t_rank)
                  ELSE ByValueDescending(floor)
        Kept(r) == ~MatchesKeyword(r)
    IN  SelectSeq(ranked, Kept)

FilterStocks ==
    /\ call.fn = "filter_stocks"
    /\ ret = NoReturn
    /\ ret' = [fn |-> "filter_stocks",
               rows |-> filter_stocks(call.universe, call.min_market_cap, call.top_rank)]
    /\ UNCHANGED <<call, scanVars, collVars>>

InitFilter ==
    /\ Quiet
    /\ call \in FilterCalls
    /\ ret = NoReturn

SpecFilter == InitFilter /\ [][FilterStocks]_vars

----------------------------------------------------------------------------
(* data_collector.py: get_stock_name. The class body defines it twice, at   *)
(* line 130 and at line 622; the second binding replaces the first, so the  *)
(* method that runs is the one of lines 622-640                             *)

Codes == {"005930", "123456", "654321"}

(* the codes of the table of lines 628-639 *)
well_known == {"005930"}

(* the codes that the process cache, the names file and the universe data *)
(* hold a name for, and the code asked for                                *)
NameCalls ==
    [fn : {"get_stock_name"}, ticker : Codes, process : SUBSET Codes,
     disk : SUBSET Codes, universe : SUBSET Codes]

NameOf(t) == <<"name", t>>
Echo(t) == <<"code", t>>

get_stock_name(c) ==
    IF c.ticker \in c.process THEN NameOf(c.ticker)
    ELSE IF c.ticker \in well_known THEN NameOf(c.ticker)
    ELSE Echo(c.ticker)

GetStockName ==
    /\ call.fn = "get_stock_name"
    /\ ret = NoReturn
    /\ ret' = [fn |-> "get_stock_name", name |-> get_stock_name(call)]
    /\ UNCHANGED <<call, scanVars, collVars>>

InitNames ==
    /\ Quiet
    /\ call \in NameCalls
    /\ ret = NoReturn

SpecNames == InitNames /\ [][GetStockName]_vars

----------------------------------------------------------------------------
(* strategies.py: the five evaluators, on what they read off the daily frame *)

(* the frame: last close, high and low of the last sixty bars, twice the     *)
(* 14-bar ATR, and the reference level of the strategy (candle centre, MA20  *)
(* or MA120); low <= close <= high, and a flat frame has no true range       *)
FramePrices ==
    {pr \in [current : {9500, 10000}, high : {10000, 10500}, low : {9000, 10000},
             atr2 : {0, 400}, level : {9400, 9600, 9800, 10000, 10100, 10200}] :
        /\ pr.low <= pr.current /\ pr.current <= pr.high
        /\ pr.high = pr.low => pr.atr2 = 0}

(* what an evaluator finds besides the prices: the rows of the frame, the   *)
(* period or lookback its parameters name (reference_candle_lookback,      *)
(* ma_period, long_ma, box_lookback), its gate, and three further findings *)
CheckCalls ==
    {c \in [fn : {"check"}, strategy : StrategyKeys,
            rows : {0, 29, 30, 60, 119, 120}, period : {5, 20, 60},
            prices : FramePrices, gate : {"yes", "near", "no"},
            first : BOOLEAN, second : BOOLEAN, third : BOOLEAN] :
        /\ c.strategy = "pullback"
               => c.prices.level \in c.prices.low..c.prices.high /\ c.gate # "near" /\ ~c.third
        /\ c.strategy = "bottom_escape"
               => c.prices.level \in c.prices.low..c.prices.high /\ c.gate # "near" /\ ~c.third
        /\ c.strategy = "golden_cross" => c.prices.level = 9800 /\ c.gate # "near"
        /\ c.strategy = "breakout" => c.prices.level = 9800 /\ c.gate = "yes"}

(* thirty rows taken as enough for every strategy and every period *)
EnoughRowsThirty(c) == c.rows >= 30

(* the guards that return the signal as constructed: fewer than 30 rows    *)
(* (120 for convergence); reference_candle and detect_box_range give {}    *)
(* below their lookback; add_all_ma adds MA<p> only for p among 5, 10, 20, *)
(* 60, 120 and only to a frame of p rows                                   *)
EnoughRows(c) ==
    CASE c.strategy \in {"pullback", "breakout"} -> c.rows >= 30 /\ c.rows >= c.period
      [] c.strategy \in {"bottom_escape", "golden_cross"} ->
             c.rows >= 30 /\ c.period \in {5, 10, 20, 60, 120} /\ c.rows >= c.period
      [] OTHER -> c.rows >= 120

(* round(x, 0) of n / d, ties to the even neighbour *)
RoundDiv(n, d) ==
    LET q == n \div d
        r == n % d
    IN  IF 2 * r < d THEN q
        ELSE IF 2 * r > d THEN q + 1
        ELSE IF q % 2 = 0 THEN q ELSE q + 1

(* indicators.py lines 138-150 and 460-464: the rounded extension levels   *)
(* above the close, sorted; the first two are the targets, and the given   *)
(* percentages of the close stand in for a target that is missing          *)
calc_target_price(pr, pct1, pct2) ==
    LET Ext(l) == RoundDiv(pr.low * 1000 + (pr.high - pr.low) * l, 1000)
        above == {l \in {1000, 1272, 1618, 2000, 2618} : Ext(l) > pr.current}
        first == CHOOSE l \in above : \A o \in above : Ext(l) <= Ext(o)
        rest == above \ {first}
        second == CHOOSE l \in rest : \A o \in rest : Ext(l) <= Ext(o)
    IN  [target_price_1 |-> IF above # {} THEN Ext(first)
                            ELSE RoundDiv(pr.current * pct1, 100),
         target_price_2 |-> IF above # {} /\ rest # {} THEN Ext(second)
                            ELSE RoundDiv(pr.current * pct2, 100)]

(* StrategySignal as constructed: not triggered, verdict 'watch' *)
Untriggered(st) ==
    [strategy |-> st, triggered |-> FALSE, confidence |-> 0, verdict |-> "watch",
     entry_price_1 |-> 0, target_price_1 |-> 0, target_price_2 |-> 0, stop_loss |-> 0]

(* the tail of every evaluator: confidence, triggered, and for a triggered *)
(* signal the prices and the verdict                                       *)
Scored(st, score, trigger, entry, targets, stop, approve) ==
    IF score >= trigger
    THEN [strategy |-> st, triggered |-> TRUE,
          confidence |-> IF score < 100 THEN score ELSE 100,
          verdict |-> IF approve THEN "approved" ELSE "watch",
          entry_price_1 |-> entry, target_price_1 |-> targets.target_price_1,
          target_price_2 |-> targets.target_price_2, stop_loss |-> stop]
    ELSE [Untriggered(st) EXCEPT !.confidence = IF score < 100 THEN score ELSE 100]

(* lines 64-163; first: volume cliff, second: institutions holding *)
check_pullback(c) ==
    LET pr == c.prices
        support == 100 * pr.current >= 98 * pr.level
        score == 40 + (IF c.first THEN 35 ELSE 0) + (IF c.second THEN 25 ELSE 0)
    IN  IF ~EnoughRows(c) \/ c.gate = "no" \/ ~support THEN Untriggered("pullback")
        ELSE Scored("pullback", score, 65, pr.level, calc_target_price(pr, 105, 110),
                    pr.level - pr.atr2, score >= 75)

(* lines 168-276; gate: the close crossed above MA20; first: no resistance *)
(* wall, second: an accumulation candle                                    *)
check_bottom_escape(c) ==
    LET pr == c.prices
        score == 40 + (IF c.first THEN 30 ELSE 10) + (IF c.second THEN 30 ELSE 0)
    IN  IF ~EnoughRows(c) \/ c.gate = "no" \/ ~(pr.current > pr.level)
        THEN Untriggered("bottom_escape")
        ELSE Scored("bottom_escape", score, 60, pr.level,
                    calc_target_price(pr, 107, 115), pr.level - pr.atr2,
                    score >= 70 /\ c.first)

(* the golden-cross verdict on the confidence alone *)
check_golden_cross_any_slope(c) ==
    LET pr == c.prices
        score == 40 + (IF c.first THEN 25 ELSE 5)
                    + (IF c.second THEN 35 ELSE IF c.third THEN 20 ELSE 0)
    IN  IF ~EnoughRows(c) \/ c.gate = "no" THEN Untriggered("golden_cross")
        ELSE Scored("golden_cross", score, 65, pr.current,
                    calc_target_price(pr, 107, 115), pr.current - pr.atr2,
                    score >= 75)

(* lines 281-396; gate: golden cross; first: slope_ok, second: RSI crossed *)
(* 50 upwards, third: RSI above 50 and rising                              *)
check_golden_cross(c) ==
    LET pr == c.prices
        score == 40 + (IF c.first THEN 25 ELSE 5)
                    + (IF c.second THEN 35 ELSE IF c.third THEN 20 ELSE 0)
    IN  IF ~EnoughRows(c) \/ c.gate = "no" THEN Untriggered("golden_cross")
        ELSE Scored("golden_cross", score, 65, pr.current,
                    calc_target_price(pr, 107, 115), pr.current - pr.atr2,
                    score >= 75 /\ c.first)

(* lines 401-514 and indicators.py lines 304-318; the box is the high and  *)
(* low of the last sixty bars; first: ask/bid ratio, second: program       *)
(* buying, third: volume surge                                             *)
check_breakout(c) ==
    LET pr == c.prices
        is_breakout == pr.current > pr.high
        near_high == 100 * (pr.high - pr.current) <= 5 * pr.current
        height == pr.high - pr.low
        score == (IF is_breakout THEN 35 ELSE IF near_high THEN 15 ELSE 0)
                    + (IF c.first THEN 25 ELSE 0) + (IF c.second THEN 20 ELSE 0)
                    + (IF c.third THEN 20 ELSE 0)
    IN  IF ~EnoughRows(c) \/ ~(is_breakout \/ near_high) THEN Untriggered("breakout")
        ELSE Scored("breakout", score, 55, pr.high,
                    [target_price_1 |-> RoundDiv(2 * pr.high + height, 2),
                     target_price_2 |-> pr.high + height],
                    Max(pr.high - pr.atr2, pr.low),
                    is_breakout /\ score >= 70)

(* lines 520-618; gate: the MAs converged or nearly so; first: is_aligned, *)
(* second: diverging, third: the index above its MA5                       *)
check_convergence(c) ==
    LET pr == c.prices
        score == (IF c.gate = "yes" THEN 30 ELSE 15) + (IF c.first THEN 25 ELSE 0)
                    + (IF c.second THEN 30 ELSE 0) + (IF c.third THEN 15 ELSE 0)
    IN  IF ~EnoughRows(c) \/ c.gate = "no" THEN Untriggered("convergence")
        ELSE Scored("convergence", score, 55, pr.current,
                    calc_target_price(pr, 108, 115),
                    Max(pr.current - pr.atr2, RoundDiv(pr.level * 97, 100)),
                    score >= 70 /\ c.first /\ c.second)

(* lines 623-640: scan_all_strategies calls the evaluator of each strategy *)
CheckStrategy ==
    /\ call.fn = "check"
    /\ ret = NoReturn
    /\ ret' = [fn |-> "check",
               signal |-> CASE call.strategy = "pullback" -> check_pullback(call)
                            [] call.strategy = "bottom_escape" -> check_bottom_escape(call)
                            [] call.strategy = "golden_cross" -> check_golden_cross(call)
                            [] call.strategy = "breakout" -> check_breakout(call)
                            [] OTHER -> check_convergence(call)]
    /\ UNCHANGED <<call, scanVars, collVars>>

InitCheck ==
    /\ Quiet
    /\ call \in CheckCalls
    /\ ret = NoReturn

SpecCheck == InitCheck /\ [][CheckStrategy]_vars

----------------------------------------------------------------------------
(* indicators.py: detect_cross, sma, ema, atr and ma_convergence *)

(* pandas' NaN, the value of a window that is not full; prices are positive *)
NaN == -1

(* series of up to three closes, bars of high, low and close, the MA      *)
(* values of the periods 5, 20, 60, 120 on the last three days, and the   *)
(* bars of a box window, df.tail(lookback), one of them closing above its *)
(* own high                                                               *)
IndicatorCalls ==
    LET Closes == UNION {[1..n -> {10, 12}] : n \in 0..3}
        MAs == UNION {[1..n -> {10, 12, NaN}] : n \in 0..2}
        Bars == UNION {[1..n -> {<<12, 10, 11>>, <<15, 14, 15>>}] : n \in 0..3}
        Sets == { <<100, 101, 102, 103>>, <<103, 102, 101, 100>>,
                  <<100, 101, 102, 110>>, <<100, 100, 100, 100>>,
                  <<102, 102, 101, 100>>, <<100, 101, 102, NaN>> }
        Earlier == { <<100, 100, 100, 100>>, <<101, 100, 100, 100>>,
                     <<102, 101, 100, 100>> }
        Recent == UNION {[1..n -> {<<100, 98, 99>>, <<103, 100, 101>>,
                                   <<105, 99, 105>>, <<100, 99, 104>>}] : n \in 1..3}
    IN  [fn : {"detect_cross"}, short_ma : MAs, long_ma : MAs]
        \cup [fn : {"sma", "ema"}, series : Closes, period : 1..3]
        \cup [fn : {"atr"}, series : Bars, period : 1..3]
        \cup [fn : {"ma_convergence"}, today : Sets, yesterday : Earlier,
              before : Earlier, threshold : {3}]
        \cup [fn : {"detect_box_range"}, recent : Recent,
              first : BOOLEAN, second : BOOLEAN, third : BOOLEAN]

(* a comparison with NaN is false *)
Less(a, b) == a # NaN /\ b # NaN /\ a < b

(* a cross reported from a bar on which the two were equal *)
detect_cross_from_equal(short_ma, long_ma) ==
    IF Len(short_ma) < 2 \/ Len(long_ma) < 2
    THEN [golden_cross |-> FALSE, dead_cross |-> FALSE]
    ELSE LET sp == short_ma[Len(short_ma) - 1]
             sc == short_ma[Len(short_ma)]
             lp == long_ma[Len(long_ma) - 1]
             lc == long_ma[Len(long_ma)]
         IN  [golden_cross |-> ~Less(lp, sp) /\ ~Less(sc, lc),
              dead_cross |-> ~Less(sp, lp) /\ ~Less(lc, sc)]

(* lines 96-114 *)
detect_cross(short_ma, long_ma) ==
    IF Len(short_ma) < 2 \/ Len(long_ma) < 2
    THEN [golden_cross |-> FALSE, dead_cross |-> FALSE]
    ELSE LET sp == short_ma[Len(short_ma) - 1]
             sc == short_ma[Len(short_ma)]
             lp == long_ma[Len(long_ma) - 1]
             lc == long_ma[Len(long_ma)]
         IN  [golden_cross |-> Less(sp, lp) /\ (Less(lc, sc) \/ (sc = lc /\ sc # NaN)),
              dead_cross |-> Less(lp, sp) /\ (Less(sc, lc) \/ (sc = lc /\ sc # NaN))]

(* lines 21-24: rolling(window=period, min_periods=period).mean(), here 36 *)
(* times the mean                                                          *)
sma(series, period) ==
    [i \in DOMAIN series |->
        IF i < period THEN NaN
        ELSE (36 * SumSeq(SubSeq(series, i - period + 1, i))) \div period]

(* lines 26-29: ewm(span=period, adjust=False).mean(): y1 = x1 and         *)
(* y = (1 - a) * y_before + a * x with a = 2 / (span + 1), from the first  *)
(* observation on; here 36 times the value                                 *)
RECURSIVE ema(_, _)
ema(series, period) ==
    IF series = <<>> THEN <<>>
    ELSE IF Len(series) = 1 THEN <<36 * series[1]>>
    ELSE LET front == ema(SubSeq(series, 1, Len(series) - 1), period)
         IN  Append(front, ((period - 1) * front[Len(front)]
                                + 2 * 36 * series[Len(series)]) \div (period + 1))

(* lines 63-74: the true range of a bar (on the first bar high - low, the  *)
(* NaN of the shifted close being skipped by max) and its rolling mean,    *)
(* here 36 times the mean; a bar is <<high, low, close>>                   *)
atr(bars, period) ==
    LET Abs(x) == IF x < 0 THEN -x ELSE x
        TR(i) == IF i = 1 THEN bars[1][1] - bars[1][2]
                 ELSE Max(bars[i][1] - bars[i][2],
                          Max(Abs(bars[i][1] - bars[i - 1][3]),
                              Abs(bars[i][2] - bars[i - 1][3])))
    IN  [i \in DOMAIN bars |->
            IF i < period THEN NaN
            ELSE (36 * SumSeq([k \in 1..period |-> TR(i - period + k)])) \div period]

(* lines 170-217: the four MA values of a day, shortest period first; an   *)
(* MA that is missing today ends the analysis early, without is_aligned    *)
ma_convergence(today, yesterday, before, threshold) ==
    LET Hi(v) == CHOOSE x \in {v[i] : i \in 1..4} : \A i \in 1..4 : v[i] <= x
        Lo(v) == CHOOSE x \in {v[i] : i \in 1..4} : \A i \in 1..4 : x <= v[i]
        s0 == <<Hi(today) - Lo(today), Lo(today)>>
        s1 == <<Hi(yesterday) - Lo(yesterday), Lo(yesterday)>>
        s2 == <<Hi(before) - Lo(before), Lo(before)>>
        Wider(a, b) == a[1] * b[2] > b[1] * a[2]
    IN  IF \E i \in 1..4 : today[i] = NaN
        THEN [converged |-> FALSE, is_aligned |-> FALSE, diverging |-> FALSE]
        ELSE [converged |-> 100 * s0[1] <= threshold * s0[2],
              is_aligned |-> \A i \in 1..3 : today[i] >= today[i + 1],
              diverging |-> Wider(s0, s1) /\ Wider(s1, s2)]

(* the box with its top taken over the bars before the latest one *)
detect_box_range_before_today(recent) ==
    LET n == Len(recent)
        before == IF n > 1 THEN 1..(n - 1) ELSE {1}
        box_high == CHOOSE x \in {recent[i][1] : i \in before} :
                        \A i \in before : recent[i][1] <= x
        box_low == CHOOSE x \in {recent[i][2] : i \in before} :
                       \A i \in before : x <= recent[i][2]
        current == recent[n][3]
    IN  [box_high |-> box_high, box_low |-> box_low,
         near_high |-> 100 * (box_high - current) <= 5 * current,
         breakout |-> current > box_high]

(* lines 304-318, on the window df.tail(lookback), the latest bar last *)
detect_box_range(recent) ==
    LET n == Len(recent)
        box_high == CHOOSE x \in {recent[i][1] : i \in 1..n} :
                        \A i \in 1..n : recent[i][1] <= x
        box_low == CHOOSE x \in {recent[i][2] : i \in 1..n} :
                       \A i \in 1..n : x <= recent[i][2]
        current == recent[n][3]
    IN  [box_high |-> box_high, box_low |-> box_low,
         near_high |-> 100 * (box_high - current) <= 5 * current,
         breakout |-> current > box_high]

(* strategies.py lines 424-427: check_breakout on the box of a frame of  *)
(* sixty rows or more                                                     *)
DetectBoxRange ==
    LET box == detect_box_range(call.recent)
        found == [strategy |-> "breakout", rows |-> 60, period |-> 60, gate |-> "yes",
                  prices |-> [current |-> call.recent[Len(call.recent)][3],
                              high |-> box.box_high, low |-> box.box_low,
                              atr2 |-> 4, level |-> box.box_low],
                  first |-> call.first, second |-> call.second, third |-> call.third]
    IN  /\ call.fn = "detect_box_range"
        /\ ret = NoReturn
        /\ ret' = [fn |-> "detect_box_range", box |-> box,
                   signal |-> check_breakout(found)]
        /\ UNCHANGED <<call, scanVars, collVars>>

DetectCross ==
    /\ call.fn = "detect_cross"
    /\ ret = NoReturn
    /\ ret' = [fn |-> "detect_cross", cross |-> detect_cross(call.short_ma, call.long_ma)]
    /\ UNCHANGED <<call, scanVars, collVars>>

Average ==
    /\ call.fn \in {"sma", "ema", "atr"}
    /\ ret = NoReturn
    /\ ret' = [fn |-> call.fn,
               values |-> CASE call.fn = "sma" -> sma(call.series, call.period)
                            [] call.fn = "ema" -> ema(call.series, call.period)
                            [] OTHER -> atr(call.series, call.period)]
    /\ UNCHANGED <<call, scanVars, collVars>>

MaConvergence ==
    /\ call.fn = "ma_convergence"
    /\ ret = NoReturn
    /\ ret' = [fn |-> "ma_convergence",
               conv |-> ma_convergence(call.today, call.yesterday, call.before,
                                       call.threshold)]
    /\ UNCHANGED <<call, scanVars, collVars>>

InitIndicators ==
    /\ Quiet
    /\ call \in IndicatorCalls
    /\ ret = NoReturn

SpecIndicators ==
    InitIndicators /\ [][DetectCross \/ Average \/ MaConvergence \/ DetectBoxRange]_vars

----------------------------------------------------------------------------
(* scanner.py lines 164-188: the result of run_scan from the pool's signals *)

(* strategies.py lines 36-52: the attributes of a StrategySignal the model *)
(* keeps; the dataclass has no market_cap                                  *)
StrategySignal(t, conf) ==
    [ticker |-> t, triggered |-> TRUE, confidence |-> conf, verdict |-> "watch"]

(* what the pool hands over: up to three triggered signals, and the number *)
(* of tickers scanned                                                      *)
ResultCalls ==
    LET Sigs == {StrategySignal(t, conf) : t \in {"900001"}, conf \in {55, 70, 90}}
    IN  [fn : {"result"},
         all_signals : UNION {[1..n -> Sigs] : n \in 0..3},
         total : 1..5]

(* report_generator.py lines 133-153: reads signal.market_cap (line 148) *)
AttributeError == [raised |-> "AttributeError"]
signal_to_dict(signal) ==
    IF "market_cap" \notin DOMAIN signal THEN AttributeError
    ELSE [ticker |-> signal.ticker, triggered |-> signal.triggered,
          confidence |-> signal.confidence, verdict |-> signal.verdict]

(* line 170: all_signals.sort(key=confidence, reverse=True), stable *)
RECURSIVE SortedByConfidence(_)
SortedByConfidence(sigs) ==
    IF sigs = <<>> THEN <<>>
    ELSE LET n == Len(sigs)
             x == sigs[n]
             front == SortedByConfidence(SubSeq(sigs, 1, n - 1))
             NotAfter(y) == y.confidence >= x.confidence
             After(y) == y.confidence < x.confidence
         IN  SelectSeq(front, NotAfter) \o <<x>> \o SelectSeq(front, After)

(* lines 170-188: sort, convert every signal, summarise *)
scan_result(all_signals, total) ==
    LET sorted == SortedByConfidence(all_signals)
        dicts == [i \in DOMAIN sorted |-> signal_to_dict(sorted[i])]
    IN  IF \E i \in DOMAIN dicts : dicts[i] = AttributeError
        THEN [outcome |-> "raised", signals |-> <<>>,
              summary |-> [total_scanned |-> 0, total_signals |-> 0]]
        ELSE [outcome |-> "returned", signals |-> dicts,
              summary |-> [total_scanned |-> total,
                           total_signals |-> Len(all_signals)]]

ScanResult ==
    /\ call.fn = "result"
    /\ ret = NoReturn
    /\ ret' = [fn |-> "result", result |-> scan_result(call.all_signals, call.total)]
    /\ UNCHANGED <<call, scanVars, collVars>>

InitResult ==
    /\ Quiet
    /\ call \in ResultCalls
    /\ ret = NoReturn

SpecResult == InitResult /\ [][ScanResult]_vars

----------------------------------------------------------------------------
(* server.py lines 236-241 and 278-282: the signals of a scan result are    *)
(* graded by analyze_intersections(signals), without a market condition     *)

(* a scan result: the snapshot of step 1 (scanner.py lines 75-78) and the   *)
(* signals; index_above is the state of the indices when the grading runs,  *)
(* raises whether the analysis in the grader fails                          *)
RouteCalls ==
    [fn : {"grade_result"},
     snapshot : {MarketCondition(k, q) : k, q \in BOOLEAN},
     signals : [1..2 -> SignalChoices],
     flows : [Tickers -> FlowChoices],
     raises : BOOLEAN]

GradeResult ==
    LET m == Market("absent", index_above["kospi"], index_above["kosdaq"], call.raises)
    IN  /\ call.fn = "grade_result"
        /\ ret = NoReturn
        /\ ret' = [fn |-> "grade_result",
                   used |-> GraderCondition(m),
                   signals |-> analyze_intersections(call.signals, call.flows, m)]
        /\ UNCHANGED <<call, scanVars, collVars>>

InitRoute ==
    /\ Constructed
    /\ call \in RouteCalls
    /\ ret = NoReturn

SpecRoute == InitRoute /\ [][GradeResult]_vars

----------------------------------------------------------------------------
(* Properties of run_scan *)

(* C1: every run_scan call that holds the guard can go on until it finishes:  *)
(* in no reachable state is a call inside the body while neither its thread   *)
(* nor any of its pool workers can take a step.                               *)
C1_ScanNeverStuck ==
    \A c \in Callers : InBody(c) => ENABLED (ScanStep(c) \/ BlockedStep(c))

(* C2: at most one scan executes system-wide: never are two calls, on whatever *)
(* scanner instances, inside the body of run_scan at the same time.            *)
C2_OneScanSystemWide == Cardinality({c \in Callers : InBody(c)}) <= 1

(* C3: every evaluation that yields a signal for a call that passed overrides  *)
(* read exactly the knob values that this call installed.                      *)
C3_ReadsOwnParams ==
    \A c \in Callers :
        (pc[c] = "pool" /\ DOMAIN scan_params[c].vars # {}) =>
            \A k \in DOMAIN workers[c] :
                \A n \in DOMAIN workers[c][k].sigs :
                    LET sig == workers[c][k].sigs[n]
                        own == InstalledParams(scan_params[c].vars)
                    IN  sig.read = [x \in KnobsOf(sig.strategy) |-> own[x]]

(* C5: the percent is always in 0..100 and processed_count never exceeds the  *)
(* number of tickers; while one call holds the guard the percent never goes   *)
(* down; and the percent becomes 100 only in a step that returns a result.    *)
C5_PercentLawful ==
    /\ [](/\ \A i \in Scanners : progress[i].percent \in 0..100
          /\ \A c \in Callers : processed_count[c] <= Len(ticker_list[c]))
    /\ [][\A i \in Scanners :
             /\ (lock[i] # 0 /\ lock'[i] = lock[i]) =>
                    progress'[i].percent >= progress[i].percent
             /\ (progress'[i].percent = 100 /\ progress[i].percent # 100) =>
                    \E c \in Callers :
                        /\ inst[c] = i
                        /\ InBody(c)
                        /\ outcome'[c] = "returned"]_vars

(* a scan that went through initialisation, classification and filtering and *)
(* whose tasks have all ended their evaluation shows 15 percent              *)
C5_Witness ==
    \E c \in Callers :
        /\ pc[c] = "pool"
        /\ progress[inst[c]].percent = 15
        /\ \A k \in DOMAIN workers[c] : workers[c][k].st = "lock"

(* C6: a step in which a call leaves run_scan with an exception releases the  *)
(* guard of its scanner and leaves the caller idle, and the guard is never    *)
(* held except by a call that is inside the body on that scanner.            *)
C6_FailureReleasesGuard ==
    /\ [](\A i \in Scanners :
             lock[i] # 0 => (InBody(lock[i]) /\ inst[lock[i]] = i))
    /\ [][\A c \in Callers :
             (InBody(c) /\ outcome'[c] = "raised") =>
                 (lock'[inst[c]] = 0 /\ pc'[c] = "idle")]_vars

(* a call failed on a scanner, and a later call of another thread holds that *)
(* scanner's guard and is past the filter step                               *)
C6_Witness ==
    \E c, d \in Callers :
        /\ c # d
        /\ pc[c] = "idle"
        /\ outcome[c] = "raised"
        /\ lock[inst[c]] = d
        /\ pc[d] \in {"install", "pool"}

(* C7: a ticker for which an evaluator raised is still counted: once its task *)
(* has ended the strategy loop, the task can do its progress update.          *)
C7_ErrorTickerCounted ==
    \A c \in Callers :
        \A k \in DOMAIN workers[c] :
            (workers[c][k].st = "lock" /\ workers[c][k].errors # {}) =>
                ENABLED UpdateProgress(c, k)

(* C8: a call with malformed parameters (an unknown strategy key, a selection *)
(* that is no list, a non-numeric floor, ceiling or knob) does no scan work:  *)
(* it never gets into the body of run_scan.                                   *)
C8_MalformedRejected ==
    \A c \in Callers :
        LET p == scan_params[c]
            malformed ==
                \/ IsStr(p.min_market_cap) \/ IsStr(p.top_rank)
                \/ p.strategies.kind = "bad"
                \/ ~(p.strategies.keys \subseteq StrategyKeys)
                \/ \E x \in DOMAIN p.vars : ~IsNum(p.vars[x])
        IN  malformed => ~InBody(c)

----------------------------------------------------------------------------
(* Properties of the collector *)

(* C9: a cached entry is served only if its age, now minus fetched-at, is    *)
(* less than the 600-second TTL, whatever the age, a day or more included.   *)
C9_StaleNeverServed == last.cached => last.age < TTL

(* C10: a read whose upstream call failed or answered with nothing returns   *)
(* data all the same, on every read path.                                    *)
C10_NeverEmptyOnFailure ==
    last.up \in {"empty", "fail"} => last.result \in {"upstream", "synthetic"}


----------------------------------------------------------------------------
(* Properties of analyze_intersections *)

Graded == ret.fn = "analyze_intersections"

(* p, s and m of a ticker, read off the call's arguments *)
PatternsOf(t) ==
    Cardinality({call.signals[i].strategy :
                    i \in {j \in DOMAIN call.signals : call.signals[j].ticker = t}})

BuyersOf(t) ==
    Cardinality({k \in {"foreign", "institution", "program"} : call.flows[t][k] > 0})

IndexAbove == call.market.kospi \/ call.market.kosdaq

NoConditionObtained == call.market.arg = "absent" /\ call.market.raises

GradeTable(p, s, m) ==
    IF p >= 3 /\ s >= 2 /\ m THEN <<"S", "S">>
    ELSE IF p = 2 /\ s >= 2 /\ m THEN <<"A", "A">>
    ELSE IF p >= 2 /\ s < 2 THEN <<"B+", "supply short">>
    ELSE IF p >= 2 /\ s >= 2 /\ ~m THEN <<"B+", "market short">>
    ELSE <<"B", "single">>

(* C11: every graded signal carries the grade of the three-stage table for   *)
(* its ticker's p distinct strategies and s positive net-buys, where the     *)
(* third stage m counts as met when an index is above its MA5 or when no     *)
(* market condition could be obtained at all.                                *)
C11_GradeTable ==
    Graded =>
        \A i \in DOMAIN ret.signals :
            LET sig == ret.signals[i]
            IN  <<sig.grade, sig.grade_label>> =
                    GradeTable(PatternsOf(sig.ticker), BuyersOf(sig.ticker),
                               IndexAbove \/ NoConditionObtained)

(* three patterns, two buyers and no market condition obtained while both *)
(* indices are below their MA5: graded S                                  *)
C11_Witness ==
    /\ Graded
    /\ NoConditionObtained /\ ~IndexAbove
    /\ \E i \in DOMAIN ret.signals :
           /\ ret.signals[i].grade = "S"
           /\ PatternsOf(ret.signals[i].ticker) = 3
           /\ BuyersOf(ret.signals[i].ticker) = 2

(* C11 as stated, with m read as 'an index is above its MA5' only *)
C11_TableWithoutMissingMarket ==
    Graded =>
        \A i \in DOMAIN ret.signals :
            LET sig == ret.signals[i]
            IN  <<sig.grade, sig.grade_label>> =
                    GradeTable(PatternsOf(sig.ticker), BuyersOf(sig.ticker), IndexAbove)

(* C12: after grading, a signal with the approved verdict has grade S or A, *)
(* whatever verdict its evaluator had set.                                  *)
C12_ApprovedOnlyAtSOrA ==
    Graded =>
        \A i \in DOMAIN ret.signals :
            ret.signals[i].verdict = "approved" => ret.signals[i].grade \in {"S", "A"}

(* the number of signals of a list with a given projection *)
CountOf(sigs, Proj(_), key) ==
    Cardinality({i \in DOMAIN sigs : Proj(sigs[i]) = key})

Identity(sig) == <<sig.ticker, sig.strategy, sig.confidence>>

WithVerdict(sig) == <<sig.ticker, sig.strategy, sig.confidence, sig.verdict>>

SameMembers(Proj(_), In(_)) ==
    /\ Len(ret.signals) = Len(call.signals)
    /\ \A key \in {Proj(call.signals[i]) : i \in DOMAIN call.signals}
                \cup {Proj(ret.signals[i]) : i \in DOMAIN ret.signals} :
           In(key[1]) =>
               CountOf(ret.signals, Proj, key) = CountOf(call.signals, Proj, key)

PromotedTickers ==
    {ret.signals[i].ticker : i \in {j \in DOMAIN ret.signals :
                                        ret.signals[j].grade \in {"S", "A"}}}

Assessment(sig) ==
    <<sig.ticker, sig.strategy, sig.confidence, sig.grade,
      sig.filter_results.pattern_overlap, sig.filter_results.supply_sync,
      sig.filter_results.market_ok>>

(* C14: grading the grader's own output, with the same flow data and the    *)
(* same market condition, gives every signal the grade and the filter       *)
(* results that the application before gave it.                             *)
C14_GradingIdempotent ==
    (Graded /\ ret.passes >= 2) =>
        /\ Len(ret.signals) = Len(ret.previous)
        /\ \A key \in {Assessment(ret.previous[i]) : i \in DOMAIN ret.previous}
                    \cup {Assessment(ret.signals[i]) : i \in DOMAIN ret.signals} :
               CountOf(ret.signals, Assessment, key)
                   = CountOf(ret.previous, Assessment, key)

(* a second grading of a list with a promoted ticker and a single-strategy *)
(* ticker, whose reasons grew in the second pass                           *)
C14_Witness ==
    /\ Graded /\ ret.passes = 2
    /\ PromotedTickers # {}
    /\ \E i \in DOMAIN ret.signals : ret.signals[i].grade = "B"
    /\ \E i \in DOMAIN ret.signals : Len(ret.signals[i].reasons) = 2

----------------------------------------------------------------------------
(* Properties of analyze_market_condition *)

(* the last close of a frame of five rows or more is above the mean of its *)
(* last five closes                                                        *)
IndexAboveMA5(closes) ==
    /\ Len(closes) >= 5
    /\ LET n == Len(closes)
       IN  5 * closes[n] > closes[n - 4] + closes[n - 3] + closes[n - 2]
                               + closes[n - 1] + closes[n]

(* C15: the phase is BEAR, with the cap 0.30 and exactly one allowed        *)
(* strategy, iff neither index is above its MA5; BULL, with weight 1.0 and  *)
(* all five strategies, iff both are; NEUTRAL, with 0.7 and all five, iff   *)
(* exactly one is; no other phase is produced.                              *)
C15_PhaseByFlags ==
    ret.fn = "analyze_market_condition" =>
        LET c == ret.condition
            k == IndexAboveMA5(call.kospi)
            q == IndexAboveMA5(call.kosdaq)
            Bear == /\ c.market_phase = "BEAR" /\ c.max_weight = 30
                    /\ Cardinality(c.allowed_strategies) = 1
            Bull == /\ c.market_phase = "BULL" /\ c.max_weight = 100
                    /\ c.allowed_strategies = StrategyKeys
            Neutral == /\ c.market_phase = "NEUTRAL" /\ c.max_weight = 70
                       /\ c.allowed_strategies = StrategyKeys
        IN  /\ c.kospi_above_ma5 = k /\ c.kosdaq_above_ma5 = q
            /\ Bear <=> (~k /\ ~q)
            /\ Bull <=> (k /\ q)
            /\ Neutral <=> (k # q)
            /\ c.market_phase \in {"BEAR", "BULL", "NEUTRAL"}
            /\ Cardinality(StrategyKeys) = 5

(* one index above its MA5 on a frame longer than five rows, the other with *)
(* too few rows to have one                                                 *)
C15_Witness ==
    /\ ret.fn = "analyze_market_condition"
    /\ ret.condition.market_phase = "NEUTRAL"
    /\ Len(call.kospi) > 5 /\ ret.condition.kospi_above_ma5
    /\ Len(call.kosdaq) \in 1..4

----------------------------------------------------------------------------
(* Properties of check_stop_loss *)

CurrentPrice == call.closes[Len(call.closes)]

(* the mean of the last twenty closes, times twenty; 0 rows short of twenty *)
TwentyTimesMA20 ==
    LET n == Len(call.closes)
    IN  IF n < 20 THEN 0 ELSE SumSeq([i \in 1..20 |-> call.closes[n - 20 + i]])

BelowMA20 == Len(call.closes) >= 20 /\ 20 * CurrentPrice < TwentyTimesMA20

(* C16: the report says 'sell now', triggered, iff the current price is at  *)
(* or below the stop price; otherwise 'sell at close', triggered, iff the   *)
(* current price is below the 20-day average; otherwise 'hold', not         *)
(* triggered. The stop price is looked at first.                            *)
C16_StopLossAction ==
    ret.fn = "check_stop_loss" =>
        LET r == ret.report
            AtStop == CurrentPrice <= call.stop_loss_price
        IN  /\ r.action \in {"sell now", "sell at close", "hold"}
            /\ (r.action = "sell now") <=> AtStop
            /\ (r.action = "sell at close") <=> (~AtStop /\ BelowMA20)
            /\ (r.action = "hold") <=> (~AtStop /\ ~BelowMA20)
            /\ r.triggered <=> (r.action # "hold")

(* the price is at or below the stop and below the average as well *)
C16_Witness ==
    /\ ret.fn = "check_stop_loss"
    /\ ret.report.action = "sell now"
    /\ CurrentPrice = 9600 /\ call.stop_loss_price = 9700
    /\ BelowMA20

----------------------------------------------------------------------------
(* Properties of filter_stocks *)

(* the rows that meet the cap floor and match no exclusion keyword *)
Eligible ==
    {r \in call.universe : r.market_cap >= call.min_market_cap /\ ~MatchesKeyword(r)}

(* C17: the result is the top_rank highest-turnover rows among the eligible *)
(* ones, so it has exactly top_rank members whenever that many are          *)
(* eligible, and none of its members matches an exclusion keyword.          *)
C17_TopNOfEligible ==
    ret.fn = "filter_stocks" =>
        LET result == {ret.rows[i] : i \in DOMAIN ret.rows}
            TopN == {r \in Eligible :
                        Cardinality({o \in Eligible : o.value > r.value}) < call.top_rank}
        IN  /\ result = TopN
            /\ Cardinality(Eligible) >= call.top_rank => Len(ret.rows) = call.top_rank
            /\ \A r \in result : ~MatchesKeyword(r)

----------------------------------------------------------------------------
(* Properties of get_stock_name *)

(* C18: the name comes from the process cache, else from the names file,    *)
(* else from the universe data, and the code is echoed only if all three    *)
(* hold no name for it.                                                     *)
C18_ThreeTiers ==
    ret.fn = "get_stock_name" =>
        LET t == call.ticker
        IN  ret.name = IF t \in call.process \cup call.disk \cup call.universe
                       THEN NameOf(t) ELSE Echo(t)

----------------------------------------------------------------------------
(* Properties of the five evaluators *)

(* the score at which each evaluator sets triggered *)
TriggerAt ==
    [pullback |-> 65, bottom_escape |-> 60, golden_cross |-> 65,
     breakout |-> 55, convergence |-> 55]

(* C19: a triggered signal has confidence at or above its strategy's trigger *)
(* threshold and stop < entry1 < target1 < target2, unless it is a breakout  *)
(* signal whose stop is the box bottom.                                      *)
C19_TriggeredPricesOrdered ==
    (ret.fn = "check" /\ ret.signal.triggered) =>
        LET sg == ret.signal
            capped == sg.strategy = "breakout" /\ sg.stop_loss = call.prices.low
        IN  /\ sg.confidence >= TriggerAt[sg.strategy]
            /\ capped \/ sg.stop_loss < sg.entry_price_1
            /\ sg.entry_price_1 < sg.target_price_1
            /\ sg.target_price_1 < sg.target_price_2

(* the confidence each evaluator asks for before it approves *)
VerdictAt ==
    [pullback |-> 75, bottom_escape |-> 70, golden_cross |-> 75,
     breakout |-> 70, convergence |-> 70]

(* the condition each evaluator tests besides the confidence: no resistance *)
(* wall, long-MA slope >= 0, the close above the box top, MAs aligned and   *)
(* diverging; check_pullback tests none                                     *)
HardCondition(st) ==
    CASE st = "bottom_escape" -> call.first
      [] st = "golden_cross" -> call.first
      [] st = "breakout" -> call.prices.current > call.prices.high
      [] st = "convergence" -> call.first /\ call.second
      [] OTHER -> FALSE

(* C20: a signal is approved only if it is triggered and its confidence is  *)
(* at or above the strategy's verdict threshold, which lies above the       *)
(* trigger threshold, and, for every strategy but pullback, its hard        *)
(* condition holds; an approved pullback has the volume-cliff finding; an   *)
(* untriggered signal has the verdict 'watch'.                              *)
C20_ApprovalGated ==
    ret.fn = "check" =>
        LET sg == ret.signal
        IN  /\ sg.verdict = "approved" =>
                   /\ sg.triggered
                   /\ sg.confidence >= VerdictAt[sg.strategy]
                   /\ VerdictAt[sg.strategy] > TriggerAt[sg.strategy]
                   /\ IF sg.strategy = "pullback" THEN call.first
                      ELSE HardCondition(sg.strategy)
            /\ ~sg.triggered => sg.verdict = "watch"

(* a golden cross approved at 85: slope_ok and the RSI above 50 and rising *)
C20_Witness ==
    /\ ret.fn = "check"
    /\ ret.signal.strategy = "golden_cross"
    /\ ret.signal.verdict = "approved"
    /\ ret.signal.confidence = 85

(* C20 as stated: every approved signal, a pullback included, meets one of *)
(* the hard conditions                                                     *)
C20_HardConditionForAll ==
    ret.fn = "check" =>
        LET sg == ret.signal
        IN  /\ sg.verdict = "approved" =>
                   /\ sg.triggered
                   /\ sg.confidence >= VerdictAt[sg.strategy]
                   /\ VerdictAt[sg.strategy] > TriggerAt[sg.strategy]
                   /\ HardCondition(sg.strategy)
            /\ ~sg.triggered => sg.verdict = "watch"

(* the frame is shorter than the evaluator needs *)
TooShort ==
    \/ call.rows < 30
    \/ call.strategy = "convergence" /\ call.rows < 120
    \/ call.strategy # "convergence" /\ call.rows < call.period

(* C21: on a frame shorter than the evaluator needs (30 bars, 120 for       *)
(* convergence, or its configured MA period or lookback) the evaluator      *)
(* returns a signal that is not triggered, has confidence 0 and the verdict *)
(* 'watch'.                                                                 *)
C21_ShortHistoryUntriggered ==
    (ret.fn = "check" /\ TooShort) =>
        /\ ~ret.signal.triggered
        /\ ret.signal.confidence = 0
        /\ ret.signal.verdict = "watch"

(* thirty rows and more, but fewer than the sixty of the box lookback, with *)
(* findings that would otherwise trigger                                    *)
C21_Witness ==
    /\ ret.fn = "check"
    /\ call.strategy = "breakout" /\ call.rows = 30 /\ call.period = 60
    /\ call.first /\ call.second /\ call.third
    /\ ~ret.signal.triggered

----------------------------------------------------------------------------
(* Properties of the indicators *)

(* C22: detect_cross never reports a golden and a dead cross together;      *)
(* golden_cross holds iff short < long one bar ago and short >= long now,   *)
(* dead_cross iff short > long one bar ago and short <= long now; a series  *)
(* shorter than two bars gives neither.                                     *)
C22_CrossAntiSymmetric ==
    ret.fn = "detect_cross" =>
        LET s == call.short_ma
            l == call.long_ma
            two == Len(s) >= 2 /\ Len(l) >= 2
            Num2(a, b) == a # NaN /\ b # NaN
            Golden == /\ two
                      /\ Num2(s[Len(s) - 1], l[Len(l) - 1]) /\ s[Len(s) - 1] < l[Len(l) - 1]
                      /\ Num2(s[Len(s)], l[Len(l)]) /\ s[Len(s)] >= l[Len(l)]
            Dead == /\ two
                    /\ Num2(s[Len(s) - 1], l[Len(l) - 1]) /\ s[Len(s) - 1] > l[Len(l) - 1]
                    /\ Num2(s[Len(s)], l[Len(l)]) /\ s[Len(s)] <= l[Len(l)]
        IN  /\ ~(ret.cross.golden_cross /\ ret.cross.dead_cross)
            /\ ret.cross.golden_cross <=> Golden
            /\ ret.cross.dead_cross <=> Dead

(* short below long one bar ago and equal to it now: a golden cross only *)
C22_Witness ==
    /\ ret.fn = "detect_cross"
    /\ call.short_ma = <<10, 12>> /\ call.long_ma = <<12, 12>>
    /\ ret.cross.golden_cross /\ ~ret.cross.dead_cross

(* C23: sma, ema and atr are null at every index with fewer than period     *)
(* observations; a series shorter than period is null everywhere.           *)
C23_NullUntilPeriod ==
    ret.fn \in {"sma", "ema", "atr"} =>
        /\ DOMAIN ret.values = DOMAIN call.series
        /\ \A i \in DOMAIN ret.values : i < call.period => ret.values[i] = NaN

(* the same of the two rolling means alone *)
RollingNullUntilPeriod ==
    ret.fn \in {"sma", "atr"} =>
        /\ DOMAIN ret.values = DOMAIN call.series
        /\ \A i \in DOMAIN ret.values : i < call.period => ret.values[i] = NaN

SpreadWithin(v, percent) ==
    LET hi == CHOOSE x \in {v[i] : i \in 1..4} : \A i \in 1..4 : v[i] <= x
        lo == CHOOSE x \in {v[i] : i \in 1..4} : \A i \in 1..4 : x <= v[i]
    IN  100 * (hi - lo) <= percent * lo

(* C24: converged iff (max - min) / min <= threshold; aligned iff the MA    *)
(* values are in strict descending order from the shortest to the longest   *)
(* period.                                                                  *)
C24_ConvergedAndAligned ==
    (ret.fn = "ma_convergence" /\ \A i \in 1..4 : call.today[i] # NaN) =>
        /\ ret.conv.converged <=> SpreadWithin(call.today, call.threshold)
        /\ ret.conv.is_aligned <=> \A i \in 1..3 : call.today[i] > call.today[i + 1]

(* the convergence half alone, with the two sets of the claim *)
ConvergedBySpread ==
    (ret.fn = "ma_convergence" /\ \A i \in 1..4 : call.today[i] # NaN) =>
        /\ ret.conv.converged <=> SpreadWithin(call.today, call.threshold)
        /\ call.today = <<100, 101, 102, 103>> => ret.conv.converged
        /\ call.today = <<100, 101, 102, 110>> => ~ret.conv.converged

----------------------------------------------------------------------------
(* Properties of the scan's strategy set, pool and result *)

(* C25: an evaluator is invoked for a ticker only if its strategy is in the *)
(* allowed set of the scan's market condition; in a BEAR market nothing but *)
(* bottom_escape is evaluated, whatever the caller selected.                *)
C25_OnlyAllowedEvaluated ==
    \A c \in Callers :
        pc[c] = "pool" =>
            \A k \in DOMAIN workers[c] :
                workers[c][k].tried \subseteq
                    market_condition[inst[c]].allowed_strategies

(* the pool never runs more than max_workers tasks and holds one task per *)
(* ticker of the list, in the order of the list                           *)
PoolBounded ==
    \A c \in Callers :
        pc[c] = "pool" =>
            /\ Busy(workers[c]) <= max_workers
            /\ Len(workers[c]) = Len(ticker_list[c])
            /\ \A k \in DOMAIN workers[c] : workers[c][k].ticker = ticker_list[c][k]

(* C26: at most 5 ticker evaluations are in progress, every ticker of the   *)
(* list is evaluated once, and the scan collects after all of them have     *)
(* finished: a task that has ended its strategy loop can count its ticker,  *)
(* so that processed_count reaches the total.                               *)
C26_PoolRunsToTotal ==
    \A c \in Callers :
        pc[c] = "pool" =>
            /\ Busy(workers[c]) <= max_workers
            /\ Len(workers[c]) = Len(ticker_list[c])
            /\ (\A k \in DOMAIN workers[c] : workers[c][k].st = "lock") =>
                   /\ processed_count[c] < Len(ticker_list[c])
                   /\ \E k \in DOMAIN workers[c] : ENABLED UpdateProgress(c, k)

(* C27: a run_scan that completes returns exactly the triggered signals of  *)
(* the evaluated pairs, by confidence non-increasing, with total_signals    *)
(* their number and total_scanned the number of tickers scanned, also when  *)
(* at least one signal was triggered.                                       *)
C27_ResultHoldsSignals ==
    ret.fn = "result" =>
        LET r == ret.result
        IN  /\ r.outcome = "returned"
            /\ Len(r.signals) = Len(call.all_signals)
            /\ \A i \in 1..(Len(r.signals) - 1) :
                   r.signals[i].confidence >= r.signals[i + 1].confidence
            /\ r.summary.total_signals = Len(r.signals)
            /\ r.summary.total_scanned = call.total

(* the same of the scans that triggered nothing *)
EmptyResultReturned ==
    (ret.fn = "result" /\ call.all_signals = <<>>) =>
        /\ ret.result.outcome = "returned"
        /\ ret.result.signals = <<>>
        /\ ret.result.summary = [total_scanned |-> call.total, total_signals |-> 0]

(* C28: the market condition used for stage 3 of grading a scan's signals   *)
(* is the snapshot computed in step 1 of that scan and stored in its result *)
(* and the grades are those that snapshot gives.                            *)
C28_GradedWithScanSnapshot ==
    ret.fn = "grade_result" =>
        /\ ret.used = call.snapshot
        /\ ret.signals =
               analyze_intersections(call.signals, call.flows,
                   Market("passed", call.snapshot.kospi_above_ma5,
                          call.snapshot.kosdaq_above_ma5, FALSE))

(* as long as the indices have not moved and the analysis succeeds, the *)
(* grader classifies as the scan did                                    *)
SameWhileIndicesRest ==
    (/\ ret.fn = "grade_result"
     /\ ~call.raises
     /\ call.snapshot = analyze_market_condition) =>
        ret.used = call.snapshot

(* C29: the parameters a scan evaluates with are a function of its own      *)
(* overrides alone: every signal was computed with the knob values the call *)
(* supplied and the configured defaults for the knobs it did not supply, so *)
(* a call without vars evaluates with the configured defaults.              *)
C29_ParamsFromOwnOverrides ==
    \A c \in Callers :
        pc[c] = "pool" =>
            \A k \in DOMAIN workers[c] :
                \A n \in DOMAIN workers[c][k].sigs :
                    LET sig == workers[c][k].sigs[n]
                    IN  sig.read = [x \in KnobsOf(sig.strategy) |->
                                       VarsGet(scan_params[c].vars, x, strategy_config[x])]

----------------------------------------------------------------------------
(* Properties of the box and of check_breakout *)

====
